---- MODULE Spec2Model ----
(***************************************************************************)
(* Voxel toy box: the VoxelEngine lifecycle (load / dismantle / rebuild /  *)
(* physics tick) of src/services/SoundEngine.ts and the per-frame gesture  *)
(* interpreter of src/components/GestureController.tsx.                    *)
(*                                                                         *)
(* Numbers are fixed point.  Lengths, velocities and angles are integers   *)
(* in hundredths of a scene unit (0.04 is 4, FLOOR_Y + 0.5 is FLOOR_Y+50), *)
(* colour channels are thousandths (1.0 is 1000), Math.random() draws are  *)
(* hundredths, times are milliseconds.  Products are truncated toward 0.   *)
(* Rendering state (camera, mesh, screen shake) is not part of the model.  *)
(*                                                                         *)
(* Spec      the engine under any sequence of calls of its API, ticks and  *)
(*           clock steps                                                   *)
(* SpecApp   the engine driven by the gestures App.handleGesture receives  *)
(* SpecStore the particle store across loads of models of several voxels,  *)
(*           dismantles and rebuilds                                       *)
(* SpecLive  a dismantle / rebuild session whose animation loop and clock  *)
(*           keep running (fairness)                                       *)
(* SpecMatch the matcher of rebuild() over stores and target lists         *)
(* SpecHold  the gesture controller over long runs of two-hand frames      *)
(* SpecGesture the gesture controller over the frames of a moving hand     *)
(* SpecJson  export by getJsonData, import by App.handleJsonImport and the  *)
(*           response handling of App.generateWithAI                       *)
(* SpecCollapse the stagger of dismantle() over particles at several       *)
(*           heights                                                       *)
(*                                                                         *)
(* CONFIG.FLOOR_Y, COLORS.GREEN and COLORS.WOOD come from                  *)
(* utils/voxelConstants, which is not among the sources: their values here *)
(* are those of the application's palette and floor.  The properties of    *)
(* the matcher use GREEN and WOOD only as the two colours that carry no    *)
(* penalty; no other property depends on the three values.                 *)
(***************************************************************************)
EXTENDS Integers, Sequences, FiniteSets, TLC

VARIABLES
    voxels,             \* VoxelEngine.voxels: the particle store
    rebuildTargets,     \* VoxelEngine.rebuildTargets
    rebuildStartTime,   \* VoxelEngine.rebuildStartTime
    dismantleStartTime, \* VoxelEngine.dismantleStartTime
    state,              \* VoxelEngine.state
    handAttractor,      \* VoxelEngine.handAttractor (NoHand is null)
    lastHandUpdate,     \* VoxelEngine.lastHandUpdate
    uiState,            \* App.appState, written by the onStateChange observer
    uiCount,            \* App.voxelCount, written by the onCountChange observer
    now,                \* Date.now()
    call,               \* the engine call that ran last, with what it emitted
    calls,              \* number of engine API calls made so far
    pticks,             \* physics ticks run in the current phase, up to its bound
    lastGesture,        \* GestureController lastGesture.current
    gestureStartTime,   \* gestureStartTime.current
    lastPalmPos,        \* lastPalmPos.current (NoPalm is null)
    velocityHistory,    \* velocityHistory.current
    cooldown,           \* cooldown.current
    twoHandsFrameCount, \* twoHandsFrameCount.current
    frame,              \* the frame onResults handled last: its input, the
                        \* onGesture calls it made in order, its onHandMove call
    holdRun,            \* two-hand frames of the unbroken run the last frame ends
    holdFires,          \* 'reset' intents fired in that run
    classCooldown       \* per intent class, the end of the cooldown its last
                        \* firing started

engineVars == <<voxels, rebuildTargets, rebuildStartTime, dismantleStartTime,
                state, handAttractor, lastHandUpdate, uiState, uiCount>>

gestureVars == <<lastGesture, gestureStartTime, lastPalmPos, velocityHistory,
                 cooldown, twoHandsFrameCount, frame, holdRun, holdFires,
                 classCooldown>>

vars == <<voxels, rebuildTargets, rebuildStartTime, dismantleStartTime,
          state, handAttractor, lastHandUpdate, uiState, uiCount,
          now, call, calls, pticks,
          lastGesture, gestureStartTime, lastPalmPos, velocityHistory,
          cooldown, twoHandsFrameCount, frame, holdRun, holdFires,
          classCooldown>>

-----------------------------------------------------------------------------
(* Bounds of the model *)

MaxParticles == 1
MaxTargets == 1
MaxTime == 600
MaxCalls == 2
MaxFallTicks == 1
MaxFlightTicks == 6

-----------------------------------------------------------------------------
(* Program constants *)

STABLE == "STABLE"
DISMANTLING == "DISMANTLING"
REBUILDING == "REBUILDING"

FLOOR_Y == -1200
GREEN == 2263842
WOOD == 3878703

-----------------------------------------------------------------------------
(* Arithmetic helpers *)

Abs(a) == IF a < 0 THEN -a ELSE a

Max(a, b) == IF a > b THEN a ELSE b

Min(a, b) == IF a < b THEN a ELSE b

\* n / d rounded toward zero
Trunc(n, d) == IF n >= 0 THEN n \div d ELSE -((-n) \div d)

\* product of two hundredths, in hundredths
Fx(a, b) == Trunc(a * b, 100)

\* floor of the square root
RECURSIVE SqrtBetween(_, _, _)
SqrtBetween(n, lo, hi) ==
    IF lo >= hi THEN lo
    ELSE LET mid == (lo + hi + 1) \div 2
         IN IF mid * mid <= n THEN SqrtBetween(n, mid, hi)
            ELSE SqrtBetween(n, lo, mid - 1)

Sqrt(n) == SqrtBetween(n, 0, 46340)

\* y^5 for y in thousandths, in thousandths
Pow5(y) ==
    LET y2 == (y * y) \div 1000
        y3 == (y2 * y) \div 1000
        y4 == (y3 * y) \div 1000
    IN (y4 * y) \div 1000

RECURSIVE Root5Between(_, _, _)
Root5Between(p, lo, hi) ==
    IF lo >= hi THEN lo
    ELSE LET mid == (lo + hi + 1) \div 2
         IN IF Pow5(mid) <= p THEN Root5Between(p, mid, hi)
            ELSE Root5Between(p, lo, mid - 1)

\* Math.pow(p, 1.2) for p in thousandths (0..1000), in thousandths
Pow12(p) == (p * Root5Between(p, 0, 1000)) \div 1000

-----------------------------------------------------------------------------
(* Colours: new THREE.Color(hex) and Color.offsetHSL(0, 0, dl) *)

Channel(byte) == (byte * 1000) \div 255

ColorOfHex(hex) ==
    [r |-> Channel((hex \div 65536) % 256),
     g |-> Channel((hex \div 256) % 256),
     b |-> Channel(hex % 256)]

Clamp(v, lo, hi) == Max(lo, Min(hi, v))

\* lightness l of c moved to clamp(l + dl), hue and saturation kept
OffsetLightness(c, dl) ==
    LET hi == Max(c.r, Max(c.g, c.b))
        lo == Min(c.r, Min(c.g, c.b))
        l  == (hi + lo) \div 2
        l2 == Clamp(l + dl, 0, 1000)
    IN IF hi = lo THEN [r |-> l2, g |-> l2, b |-> l2]
       ELSE LET s == IF l <= 500 THEN ((hi - lo) * 1000) \div (hi + lo)
                     ELSE ((hi - lo) * 1000) \div (2000 - hi - lo)
                p == IF l2 <= 500 THEN (l2 * (1000 + s)) \div 1000
                     ELSE l2 + s - ((l2 * s) \div 1000)
                q == 2 * l2 - p
                At(v) == q + ((p - q) * (v - lo)) \div (hi - lo)
            IN [r |-> At(c.r), g |-> At(c.g), b |-> At(c.b)]

-----------------------------------------------------------------------------
(* Inputs *)

\* values a Math.random() call takes in the model, in hundredths
RandomValues == {0, 99}

\* lightness offsets (Math.random() * 0.06) - 0.03 of createVoxels, in thousandths
JitterValues == {-30}

\* voxels the loaded models and the rebuild targets are made of: x, y, z in
\* hundredths and a 24-bit colour
Voxel(x, y, z, color) == [x |-> x, y |-> y, z |-> z, color |-> color]

VoxelPool == {Voxel(0, FLOOR_Y, 0, WOOD), Voxel(200, FLOOR_Y + 300, 0, 15790320)}

SeqsUpTo(S, n) == UNION {[1..k -> S] : k \in 0..n}

Models == SeqsUpTo(VoxelPool, MaxParticles)

\* the voxel the rebuild targets are made of: three units above the floor
TargetPool == {Voxel(200, FLOOR_Y + 300, 0, 15790320)}

TargetModels == SeqsUpTo(TargetPool, MaxTargets)

Vec(x, y, z) == [x |-> x, y |-> y, z |-> z]

NoHand == [none |-> TRUE]

-----------------------------------------------------------------------------
(* The engine *)

StateNote(s) == [kind |-> "state", v |-> s]

CountNote(n) == [kind |-> "count", v |-> n]

\* a call: its name, whether it got past its guard, the size of its list
\* argument (0 when it takes none), the notifications it emitted, in order,
\* and how many times it set a taken flag (rebuild)
Marked(name, accepted, size, emitted, marks) ==
    [op |-> name, accepted |-> accepted, size |-> size, emitted |-> emitted,
     marks |-> marks]

Called(name, accepted, size, emitted) == Marked(name, accepted, size, emitted, 0)

\* the voxels of a list without the repetitions of an earlier voxel
RECURSIVE Distinct(_, _)
Distinct(data, k) ==
    IF k = 0 THEN <<>>
    ELSE LET rest == Distinct(data, k - 1)
         IN IF \E j \in 1..(k - 1) : data[j] = data[k] THEN rest
            ELSE Append(rest, data[k])

\* a createVoxels that makes one particle per distinct voxel
CreateVoxelsDeduplicated(data, jitter) ==
    LET kept == Distinct(data, Len(data))
    IN [i \in 1..Len(kept) |->
           [id |-> i - 1,
            x |-> kept[i].x, y |-> kept[i].y, z |-> kept[i].z,
            color |-> OffsetLightness(ColorOfHex(kept[i].color), jitter[i]),
            vx |-> 0, vy |-> 0, vz |-> 0, rx |-> 0, ry |-> 0, rz |-> 0,
            rvx |-> 0, rvy |-> 0, rvz |-> 0,
            dismantleDelay |-> 0]]

\* createVoxels: one particle per voxel, at rest, colour jittered once
CreateVoxels(data, jitter) ==
    [i \in 1..Len(data) |->
        [id |-> i - 1,
         x |-> data[i].x, y |-> data[i].y, z |-> data[i].z,
         color |-> OffsetLightness(ColorOfHex(data[i].color), jitter[i]),
         vx |-> 0, vy |-> 0, vz |-> 0, rx |-> 0, ry |-> 0, rz |-> 0,
         rvx |-> 0, rvy |-> 0, rvz |-> 0,
         dismantleDelay |-> 0]]

\* an observer that drops the state it is given
OnStateChangeDropped(newState) == UNCHANGED uiState

\* (newState) => setAppState(newState)
OnStateChange(newState) == uiState' = newState

\* an observer that drops the count it is given
OnCountChangeDropped(count) == UNCHANGED uiCount

\* (count) => setVoxelCount(count)
OnCountChange(count) == uiCount' = count

\* a load that leaves the lifecycle state as it is
LoadInitialModelKeepingState(data, jitter) ==
    /\ calls < MaxCalls
    /\ voxels' = CreateVoxels(data, jitter)
    /\ OnCountChange(Len(data))
    /\ call' = Called("load", TRUE, Len(data), <<CountNote(Len(data)), StateNote(state)>>)
    /\ calls' = calls + 1
    /\ UNCHANGED <<rebuildTargets, rebuildStartTime, dismantleStartTime, state,
                   uiState, handAttractor, lastHandUpdate, now, pticks>>
    /\ UNCHANGED gestureVars

LoadInitialModel(data, jitter) ==
    /\ calls < MaxCalls
    /\ voxels' = CreateVoxels(data, jitter)
    /\ OnCountChange(Len(voxels'))
    /\ state' = STABLE
    /\ OnStateChange(state')
    /\ call' = Called("load", TRUE, Len(data), <<CountNote(Len(data)), StateNote(STABLE)>>)
    /\ calls' = calls + 1
    /\ UNCHANGED <<rebuildTargets, rebuildStartTime, dismantleStartTime,
                   handAttractor, lastHandUpdate, now, pticks>>
    /\ UNCHANGED gestureVars

NoPalm == [none |-> TRUE]

NoMove == [none |-> TRUE]

\* the refs of a GestureController that has handled no frame yet
GestureIdle ==
    /\ lastGesture = "None"
    /\ gestureStartTime = 0
    /\ lastPalmPos = NoPalm
    /\ velocityHistory = <<>>
    /\ cooldown = 0
    /\ twoHandsFrameCount = 0
    /\ frame = [hands |-> 0, palm |-> NoPalm, fist |-> FALSE,
                intents |-> <<>>, move |-> NoMove]
    /\ holdRun = 0
    /\ holdFires = 0
    /\ classCooldown = [c \in {"punch", "swipe", "reset"} |-> 0]

\* new VoxelEngine(...) followed by the initial loadInitialModel of App's
\* mount effect, for the models of a set
EngineLoaded(models) ==
    /\ \E data \in models : \E jitter \in [1..Len(data) -> JitterValues] :
          /\ voxels = CreateVoxels(data, jitter)
          /\ uiCount = Len(data)
          /\ call = Called("load", TRUE, Len(data), <<CountNote(Len(data)), StateNote(STABLE)>>)
    /\ rebuildTargets = <<>>
    /\ rebuildStartTime = 0
    /\ dismantleStartTime = 0
    /\ state = STABLE
    /\ handAttractor = NoHand
    /\ lastHandUpdate = 0
    /\ uiState = STABLE
    /\ calls = 0
    /\ pticks = 0

Init ==
    /\ EngineLoaded(Models)
    /\ GestureIdle
    /\ now = 0

Load == \E data \in Models : \E jitter \in [1..Len(data) -> JitterValues] :
            LoadInitialModel(data, jitter)

\* the Math.random() values of one call, one per particle: every draw the call
\* makes for a particle takes that particle's value
Draws == [1..Len(voxels) -> RandomValues]

\* cx += v.x (cz += v.z) over the first i voxels
RECURSIVE SumOver(_, _, _)
SumOver(vs, axis, i) ==
    IF i = 0 THEN 0
    ELSE (IF axis = "x" THEN vs[i].x ELSE IF axis = "y" THEN vs[i].y ELSE vs[i].z)
            + SumOver(vs, axis, i - 1)

\* centroid coordinate; with an empty store the code divides 0 by 0 and the
\* value is never read
Centroid(vs, axis) ==
    IF Len(vs) = 0 THEN 0 ELSE Trunc(SumOver(vs, axis, Len(vs)), Len(vs))

\* score: v.y + Math.random() * 5
Score(vs, noise, i) == vs[i].y + noise[i] * 5

\* a sort in ascending score
RankOfAscending(vs, noise, i) ==
    Cardinality({j \in 1..Len(vs) :
        \/ Score(vs, noise, j) < Score(vs, noise, i)
        \/ (Score(vs, noise, j) = Score(vs, noise, i) /\ j < i)})

\* index of particle i in sortedWithNoise: descending score, ties in store order
RankOf(vs, noise, i) ==
    Cardinality({j \in 1..Len(vs) :
        \/ Score(vs, noise, j) > Score(vs, noise, i)
        \/ (Score(vs, noise, j) = Score(vs, noise, i) /\ j < i)})

\* Math.pow(index / length, 1.2) * totalDuration, in ms
TotalDuration == 1200

DelayOfRank(index, n) == (Pow12((index * 1000) \div n) * TotalDuration) \div 1000

SwipeVelocity(v, direction, u) ==
    LET force == 50 + Fx(u, 50)
    IN [v EXCEPT !.vx = Fx(direction.x, force) + Fx(u - 50, 20),
                 !.vy = Fx(u, 30) + 10,
                 !.vz = Fx(direction.z, force) + Fx(u - 50, 20)]

ExplodeVelocity(v, cx, cz, u) ==
    LET dx == v.x - cx
        dz == v.z - cz
        root == Sqrt(dx * dx + dz * dz)
        dist == IF root = 0 THEN 10 ELSE root
        force == 80 + Fx(u, 80)
    IN [v EXCEPT !.vx = Fx(Trunc(dx * 100, dist), force) + Fx(u - 50, 50),
                 !.vy = Fx(u, 80) + 40,
                 !.vz = Fx(Trunc(dz * 100, dist), force) + Fx(u - 50, 50)]

\* a dismantle that loses the last particle of the store
DismantledDroppingLast(vs, type, direction, draw) ==
    [i \in 1..(Len(vs) - 1) |-> vs[i]]

Dismantled(vs, type, direction, draw) ==
    LET cx == Centroid(vs, "x")
        cz == Centroid(vs, "z")
    IN [i \in 1..Len(vs) |->
          LET v == IF type = "swipe" THEN SwipeVelocity(vs[i], direction, draw[i])
                   ELSE ExplodeVelocity(vs[i], cx, cz, draw[i])
          IN [v EXCEPT !.rvx = Fx(draw[i] - 50, 40),
                       !.rvy = Fx(draw[i] - 50, 40),
                       !.rvz = Fx(draw[i] - 50, 40),
                       !.dismantleDelay = DelayOfRank(RankOf(vs, draw, i), Len(vs))]]

\* a guard that lets dismantle() through while REBUILDING
DismantleAllowedUnlessDismantling == state # DISMANTLING

\* a dismantle() without its guard
DismantleAllowedAlways == TRUE

\* if (this.state !== AppState.STABLE) return
DismantleAllowed == state = STABLE

Dismantle(type, direction, draw) ==
    /\ calls < MaxCalls
    /\ calls' = calls + 1
    /\ IF ~DismantleAllowed
       THEN /\ call' = Called("dismantle", FALSE, 0, <<>>)
            /\ UNCHANGED <<engineVars, now, pticks>>
       ELSE /\ state' = DISMANTLING
            /\ OnStateChange(state')
            /\ dismantleStartTime' = now
            /\ voxels' = Dismantled(voxels, type, direction, draw)
            /\ call' = Called("dismantle", TRUE, 0, <<StateNote(DISMANTLING)>>)
            /\ pticks' = 0
            /\ UNCHANGED <<rebuildTargets, rebuildStartTime, handAttractor,
                           lastHandUpdate, uiCount, now>>
    /\ UNCHANGED gestureVars

\* direction the caller passes: the vector of a downward swipe
Directions == {Vec(0, -100, 0)}

DismantleCall ==
    \E type \in {"explode", "swipe"} : \E draw \in Draws :
        Dismantle(type, IF type = "swipe" THEN Vec(100, 0, 0) ELSE Vec(0, 0, 0), draw)

Forced(v, direction, strength, u) ==
    [v EXCEPT !.vx = @ + Fx(Fx(direction.x, strength), 80 + Fx(u, 40)),
              !.vy = @ + Fx(Fx(direction.y, strength), 80 + Fx(u, 40)),
              !.vz = @ + Fx(Fx(direction.z, strength), 80 + Fx(u, 40)),
              !.rvx = @ + Fx(u - 50, 20),
              !.rvy = @ + Fx(u - 50, 20),
              !.rvz = @ + Fx(u - 50, 20)]

\* an applyForce() that never returns early
ForceIgnoredNever == FALSE

\* if (this.state === AppState.STABLE) return
ForceIgnored == state = STABLE

ApplyForce(direction, strength, draw) ==
    /\ calls < MaxCalls
    /\ calls' = calls + 1
    /\ call' = Called("applyForce", ~ForceIgnored, 0, <<>>)
    /\ IF ForceIgnored
       THEN UNCHANGED voxels
       ELSE voxels' = [i \in 1..Len(voxels) |->
                          Forced(voxels[i], direction, strength, draw[i])]
    /\ UNCHANGED <<rebuildTargets, rebuildStartTime, dismantleStartTime, state,
                   handAttractor, lastHandUpdate, uiState, uiCount, now, pticks>>
    /\ UNCHANGED gestureVars

\* strength the caller passes (App.handleGesture)
SwipeStrength == 80

ApplyForceCall ==
    \E direction \in Directions : \E draw \in Draws :
        ApplyForce(direction, SwipeStrength, draw)

\* the points setHandPosition unprojects a palm to
HandPoints == {Vec(0, -400, 0)}

SetHandPosition(pos) ==
    /\ calls < MaxCalls
    /\ calls' = calls + 1
    /\ lastHandUpdate' = now
    /\ handAttractor' = pos
    /\ call' = Called("setHandPosition", TRUE, 0, <<>>)
    /\ UNCHANGED <<voxels, rebuildTargets, rebuildStartTime, dismantleStartTime,
                   state, uiState, uiCount, now, pticks>>
    /\ UNCHANGED gestureVars

SetHandPositionCall == \E pos \in HandPoints : SetHandPosition(pos)

\* getColorDist, in ten-thousandths: weighted RGB distance of a particle
\* colour to a target's 24-bit colour
GetColorDist(c1, hex2) ==
    LET c2 == ColorOfHex(hex2)
        r == ((c1.r - c2.r) * 30) \div 10
        g == ((c1.g - c2.g) * 59) \div 10
        b == ((c1.b - c2.b) * 11) \div 10
    IN Sqrt(r * r + g * g + b * b)

IsLeafOrWood(c) == c.g > 400 \/ (c.r < 250 /\ c.b < 250)

TargetIsGreen(target) == target.color = GREEN \/ target.color = WOOD

\* penalty 100, in ten-thousandths
Penalty(c, target) == IF IsLeafOrWood(c) /\ ~TargetIsGreen(target) THEN 1000000 ELSE 0

\* a scan without the break at a near-perfect match
RECURSIVE ScanToTheEnd(_, _, _, _, _, _)
ScanToTheEnd(vs, taken, target, i, bestDist, bestIdx) ==
    IF i > Len(vs) THEN bestIdx
    ELSE IF i \in taken THEN ScanToTheEnd(vs, taken, target, i + 1, bestDist, bestIdx)
    ELSE LET d == GetColorDist(vs[i].color, target.color)
             penalty == Penalty(vs[i].color, target)
         IN IF d + penalty < bestDist
            THEN ScanToTheEnd(vs, taken, target, i + 1, d + penalty, i)
            ELSE ScanToTheEnd(vs, taken, target, i + 1, bestDist, bestIdx)

\* the scan of one target over available[i..]: the index chosen, 0 for none
\* (bestIdx -1)
RECURSIVE Scan(_, _, _, _, _, _)
Scan(vs, taken, target, i, bestDist, bestIdx) ==
    IF i > Len(vs) THEN bestIdx
    ELSE IF i \in taken THEN Scan(vs, taken, target, i + 1, bestDist, bestIdx)
    ELSE LET d == GetColorDist(vs[i].color, target.color)
             penalty == Penalty(vs[i].color, target)
         IN IF d + penalty < bestDist
            THEN IF d < 100 THEN i
                 ELSE Scan(vs, taken, target, i + 1, d + penalty, i)
            ELSE Scan(vs, taken, target, i + 1, bestDist, bestIdx)

\* a scan that does not skip the taken entries
BestIndexAmongAll(vs, taken, target) == Scan(vs, {}, target, 1, 99990000, 0)

\* bestDist = 9999, bestIdx = -1, then the scan
BestIndex(vs, taken, target) == Scan(vs, taken, target, 1, 99990000, 0)

NoTarget == [null |-> TRUE]

\* delay = Math.max(0, (target.y - FLOOR_Y) / 15) * 300, in ms
FlightDelay(target) == (Max(0, Trunc(target.y - FLOOR_Y, 15)) * 300) \div 100

FlightTarget(target) ==
    [x |-> target.x, y |-> target.y, z |-> target.z,
     delay |-> FlightDelay(target), isRubble |-> FALSE]

RubbleTarget(v) == [x |-> v.x, y |-> v.y, z |-> v.z, delay |-> 0, isRubble |-> TRUE]

\* targetModel.forEach from target k on: the taken flags and the mappings
\* marks counts the executions of available[bestIdx].taken = true
RECURSIVE Match(_, _, _, _, _, _)
Match(vs, targetModel, k, taken, mappings, marks) ==
    IF k > Len(targetModel)
    THEN [taken |-> taken, mappings |-> mappings, marks |-> marks]
    ELSE LET bestIdx == BestIndex(vs, taken, targetModel[k])
         IN IF bestIdx # 0
            THEN Match(vs, targetModel, k + 1, taken \cup {bestIdx},
                       [mappings EXCEPT ![bestIdx] = FlightTarget(targetModel[k])],
                       marks + 1)
            ELSE Match(vs, targetModel, k + 1, taken, mappings, marks)

Matched(vs, targetModel) ==
    Match(vs, targetModel, 1, {}, [i \in 1..Len(vs) |-> NoTarget], 0)

\* mappings whose leftover entries stay null
MappingsWithoutRubble(vs, targetModel) == Matched(vs, targetModel).mappings

\* leftover voxels become rubble
Mappings(vs, targetModel) ==
    LET m == Matched(vs, targetModel).mappings
    IN [i \in 1..Len(vs) |-> IF m[i] = NoTarget THEN RubbleTarget(vs[i]) ELSE m[i]]

\* rebuild() without its guard
RebuildAllowedAlways == TRUE

\* if (this.state === AppState.REBUILDING) return
RebuildAllowed == state # REBUILDING

Rebuild(targetModel) ==
    /\ calls < MaxCalls
    /\ calls' = calls + 1
    /\ IF ~RebuildAllowed
       THEN /\ call' = Called("rebuild", FALSE, Len(targetModel), <<>>)
            /\ UNCHANGED <<engineVars, now, pticks>>
       ELSE /\ rebuildTargets' = Mappings(voxels, targetModel)
            /\ rebuildStartTime' = now
            /\ state' = REBUILDING
            /\ OnStateChange(state')
            /\ call' = Marked("rebuild", TRUE, Len(targetModel),
                            <<StateNote(REBUILDING)>>,
                            Matched(voxels, targetModel).marks)
            /\ pticks' = 0
            /\ UNCHANGED <<voxels, dismantleStartTime, handAttractor,
                           lastHandUpdate, uiCount, now>>
    /\ UNCHANGED gestureVars

RebuildCall == \E targetModel \in TargetModels : Rebuild(targetModel)

\* Math.sin(a) * 100 for a in hundredths of a radian (Bhaskara's approximation)
HalfWave(x) == (16 * x * (314 - x) * 100) \div (5 * 314 * 314 - 4 * x * (314 - x))

Sin(a) ==
    LET t == a % 628
    IN IF t <= 314 THEN HalfWave(t) ELSE -HalfWave(t - 314)

Cos(a) == Sin(a + 157)

\* (r sin(phi) cos(theta), r cos(phi), r sin(phi) sin(theta)) of the seed
\* id * 137.508, for the ids of the model
SwarmOffset(id) ==
    CASE id = 0 -> Vec(0, 400, 0)
      [] id = 1 -> Vec(170, 238, -905)
      [] id = 2 -> Vec(-1211, -751, -473)
      [] id = 3 -> Vec(-299, 639, 479)
      [] OTHER -> Vec(1032, -1, 950)

\* hand attraction: spring toward attractor + offset + noise, damping,
\* counter-gravity
Attracted(v, hand, t) ==
    LET time == t \div 10
        off == SwarmOffset(v.id)
        targetX == hand.x + off.x + 2 * Sin(time + v.id * 100)
        targetY == hand.y + off.y + 2 * Cos(time + v.id * 50)
        targetZ == hand.z + off.z + 2 * Sin((time * 8) \div 10 + v.id * 20)
    IN [v EXCEPT !.vx = Fx(@ + Fx(targetX - v.x, 6), 88),
                 !.vy = Fx(@ + Fx(targetY - v.y, 6), 88) + 4,
                 !.vz = Fx(@ + Fx(targetZ - v.z, 6), 88)]

\* gravity, then position += velocity and rotation += angular velocity
Integrated(v) ==
    [v EXCEPT !.vy = @ - 4,
              !.x = @ + v.vx, !.y = @ + v.vy - 4, !.z = @ + v.vz,
              !.rx = @ + v.rvx, !.ry = @ + v.rvy, !.rz = @ + v.rvz]

\* a floor collision that bounces without clamping y
FloorCollidedNoClamp(v) ==
    IF v.y < FLOOR_Y + 50
    THEN [v EXCEPT !.vy = Fx(@, -40), !.vx = Fx(@, 80), !.vz = Fx(@, 80),
                   !.rvx = Fx(@, 80), !.rvy = Fx(@, 80), !.rvz = Fx(@, 80)]
    ELSE v

FloorCollided(v) ==
    IF v.y < FLOOR_Y + 50
    THEN [v EXCEPT !.y = FLOOR_Y + 50,
                   !.vy = Fx(@, -40), !.vx = Fx(@, 80), !.vz = Fx(@, 80),
                   !.rvx = Fx(@, 80), !.rvy = Fx(@, 80), !.rvz = Fx(@, 80)]
    ELSE v

\* a DISMANTLING branch without the wait for the particle's delay
FallenAtOnce(v, elapsed, isHandActive, hand, t) ==
    FloorCollided(Integrated(
        IF isHandActive /\ hand # NoHand THEN Attracted(v, hand, t) ELSE v))

\* one particle of the DISMANTLING branch
Fallen(v, elapsed, isHandActive, hand, t) ==
    IF elapsed < v.dismantleDelay THEN v
    ELSE FloorCollided(Integrated(
            IF isHandActive /\ hand # NoHand THEN Attracted(v, hand, t) ELSE v))

\* one particle of the REBUILDING branch: the lerp of speed 0.25
Lerped(v, t) ==
    [v EXCEPT !.x = @ + Fx(t.x - @, 25), !.y = @ + Fx(t.y - @, 25),
              !.z = @ + Fx(t.z - @, 25),
              !.rx = @ + Fx(0 - @, 25), !.ry = @ + Fx(0 - @, 25),
              !.rz = @ + Fx(0 - @, 25)]

\* a reached check without the epsilon
NotReachedExactly(v, t) == v.x # t.x \/ v.y # t.y \/ v.z # t.z

\* (t.x - v.x) ** 2 + (t.y - v.y) ** 2 + (t.z - v.z) ** 2 > 0.01
NotReached(v, t) ==
    (t.x - v.x) * (t.x - v.x) + (t.y - v.y) * (t.y - v.y)
        + (t.z - v.z) * (t.z - v.z) > 100

Snapped(v, t) == [v EXCEPT !.x = t.x, !.y = t.y, !.z = t.z, !.rx = 0, !.ry = 0, !.rz = 0]

\* a REBUILDING branch that flies rubble as well
FlownRubbleToo(v, t, elapsed) ==
    IF elapsed < t.delay THEN v
    ELSE IF NotReached(Lerped(v, t), t) THEN Lerped(v, t)
    ELSE Snapped(Lerped(v, t), t)

Flown(v, t, elapsed) ==
    IF t.isRubble \/ elapsed < t.delay THEN v
    ELSE IF NotReached(Lerped(v, t), t) THEN Lerped(v, t)
    ELSE Snapped(Lerped(v, t), t)

\* an allDone that a waiting voxel does not clear
AllDoneIgnoringDelay(vs, targets, elapsed) ==
    \A i \in 1..Len(vs) :
        \/ targets[i].isRubble
        \/ elapsed < targets[i].delay
        \/ ~NotReached(Lerped(vs[i], targets[i]), targets[i])

\* allDone at the end of the forEach
AllDone(vs, targets, elapsed) ==
    \A i \in 1..Len(vs) :
        \/ targets[i].isRubble
        \/ /\ elapsed >= targets[i].delay
           /\ ~NotReached(Lerped(vs[i], targets[i]), targets[i])

UpdatePhysics ==
    /\ CASE state = DISMANTLING ->
            LET elapsed == now - dismantleStartTime
                isHandActive == (now - lastHandUpdate) < 300
            IN /\ voxels' = [i \in 1..Len(voxels) |->
                    Fallen(voxels[i], elapsed, isHandActive, handAttractor, now)]
               /\ pticks' = Min(pticks + 1, MaxFallTicks)
               /\ call' = Called("tick", TRUE, 0, <<>>)
               /\ UNCHANGED <<state, uiState>>
         [] state = REBUILDING ->
            LET elapsed == now - rebuildStartTime
            IN /\ voxels' = [i \in 1..Len(voxels) |->
                    Flown(voxels[i], rebuildTargets[i], elapsed)]
               /\ IF AllDone(voxels, rebuildTargets, elapsed)
                  THEN /\ state' = STABLE
                       /\ OnStateChange(state')
                       /\ call' = Called("tick", TRUE, 0, <<StateNote(STABLE)>>)
                  ELSE /\ call' = Called("tick", TRUE, 0, <<>>)
                       /\ UNCHANGED <<state, uiState>>
               /\ pticks' = Min(pticks + 1, MaxFlightTicks)
         [] OTHER ->
            /\ call' = Called("tick", TRUE, 0, <<>>)
            /\ UNCHANGED <<voxels, state, uiState, pticks>>
    /\ UNCHANGED <<rebuildTargets, rebuildStartTime, dismantleStartTime,
                   handAttractor, lastHandUpdate, uiCount, now, calls>>
    /\ UNCHANGED gestureVars

\* a flight delay of the running rebuild has not elapsed yet
RebuildWaiting ==
    /\ state = REBUILDING
    /\ \E i \in 1..Len(voxels) :
          ~rebuildTargets[i].isRubble /\ now - rebuildStartTime < rebuildTargets[i].delay

\* wall-clock time between two callbacks, in ms
TimeSteps == {600}

Advance ==
    /\ now < MaxTime \/ RebuildWaiting
    /\ \E dt \in TimeSteps : now' = now + dt
    /\ UNCHANGED <<engineVars, call, calls, pticks>>
    /\ UNCHANGED gestureVars

\* an animation frame, while the phase has ticks left in the model
Tick ==
    /\ state = DISMANTLING => pticks < MaxFallTicks
    /\ state = REBUILDING => pticks < MaxFlightTicks
    /\ UpdatePhysics

\* App.handleGesture: 'punch' dismantles, 'swipe' pushes the particles of an
\* engine that is DISMANTLING and does nothing otherwise, 'reset' rebuilds the
\* current model
HandleGesture(action, direction, draw, targetModel) ==
    IF action = "punch" THEN Dismantle("explode", Vec(0, 0, 0), draw)
    ELSE IF action = "swipe"
    THEN IF state = DISMANTLING
         THEN ApplyForce(direction, SwipeStrength, draw)
         ELSE /\ calls < MaxCalls
              /\ calls' = calls + 1
              /\ call' = Called("swipe", FALSE, 0, <<>>)
              /\ UNCHANGED <<engineVars, now, pticks, gestureVars>>
    ELSE Rebuild(targetModel)

HandleGestureCall ==
    \E action \in {"punch", "swipe", "reset"} : \E direction \in Directions :
        \E draw \in Draws : \E targetModel \in TargetModels :
            HandleGesture(action, direction, draw, targetModel)

Next ==
    \/ Load
    \/ DismantleCall
    \/ RebuildCall
    \/ ApplyForceCall
    \/ SetHandPositionCall
    \/ Tick
    \/ Advance

Spec == Init /\ [][Next]_vars

\* The engine driven by the gestures App.handleGesture receives, and by
\* applyForce() called on its own.
NextApp ==
    \/ HandleGestureCall
    \/ ApplyForceCall
    \/ Tick
    \/ Advance

SpecApp == Init /\ [][NextApp]_vars

\* A session that dismantles the loaded model at most once and then rebuilds
\* it: the particle configurations a rebuild can start from, and a rebuild
\* that gets all the animation frames it needs.
LiveDismantle == calls = 0 /\ DismantleCall

LiveRebuild == calls <= 1 /\ RebuildCall

TickLive ==
    /\ state = DISMANTLING => pticks < MaxFallTicks
    /\ UpdatePhysics

NextLive ==
    \/ LiveDismantle
    \/ LiveRebuild
    \/ TickLive
    \/ Advance

\* requestAnimationFrame keeps calling updatePhysics and the clock keeps running
SpecLive == Init /\ [][NextLive]_vars /\ WF_vars(TickLive) /\ WF_vars(Advance)

-----------------------------------------------------------------------------
(* The matcher of rebuild() alone, over stores and target lists of more
   colours *)

MaxStore == 2
MaxMatchTargets == 3

\* green, wood, red, light grey
MatchColors == {GREEN, WOOD, 16711680, 15790320}

MatchModels == SeqsUpTo({Voxel(0, FLOOR_Y, 0, c) : c \in MatchColors}, MaxStore)

\* the colours of the store and the light grey a particle has after its jitter
MatchPalette == <<GREEN, WOOD, 16711680, 15790320, 15263976>>

\* target k of a list stands at x = k, in the row z of its colour
MatchTargetModels ==
    {[k \in 1..Len(colors) |->
        Voxel(100 * k, FLOOR_Y + 100, 100 * colors[k], MatchPalette[colors[k]])] :
        colors \in SeqsUpTo(DOMAIN MatchPalette, MaxMatchTargets)}

InitMatch ==
    /\ EngineLoaded(MatchModels)
    /\ GestureIdle
    /\ now = 0

\* one rebuild() of the loaded store
MatchCall == calls = 0 /\ \E targetModel \in MatchTargetModels : Rebuild(targetModel)

NextMatch == MatchCall

SpecMatch == InitMatch /\ [][NextMatch]_vars

-----------------------------------------------------------------------------
(* The particle store across loads, dismantles and rebuilds: models of
   several voxels, duplicates included, rebuilt towards target lists shorter
   and longer than the store *)

MaxLoad == 2
MaxStoreTargets == 2

\* one voxel: a model of two is a model with a duplicate
StorePool == {Voxel(0, FLOOR_Y, 0, WOOD)}

StoreModels == SeqsUpTo(StorePool, MaxLoad)

StoreTargetModels == SeqsUpTo(TargetPool, MaxStoreTargets)

\* Math.random() draws that give every particle the same value
StoreDraws == {[i \in 1..Len(voxels) |-> u] : u \in RandomValues}

InitStore ==
    /\ EngineLoaded(StoreModels)
    /\ GestureIdle
    /\ now = 0

StoreLoad == \E data \in StoreModels : \E jitter \in [1..Len(data) -> JitterValues] :
                 LoadInitialModel(data, jitter)

StoreDismantle == \E draw \in StoreDraws : Dismantle("explode", Vec(0, 0, 0), draw)

StoreRebuild == \E targetModel \in StoreTargetModels : Rebuild(targetModel)

StoreForce ==
    \E direction \in Directions : \E draw \in StoreDraws :
        ApplyForce(direction, SwipeStrength, draw)

NextStore ==
    \/ StoreLoad
    \/ StoreDismantle
    \/ StoreRebuild
    \/ StoreForce
    \/ Tick
    \/ Advance

SpecStore == InitStore /\ [][NextStore]_vars

-----------------------------------------------------------------------------
(* Export and import: getJsonData, App.handleJsonImport and the response
   handling of App.generateWithAI.  In this part coordinates are thousandths
   of a scene unit, so that toFixed(2) has a digit to round.  A JSON value is
   a number, NaN, a string or undefined (a missing field); a string is its
   characters, 0..15 for the hexadecimal digits and 16 for any other
   character, and whether a '#' precedes them. *)

MaxRecords == 2

Undefined == [t |-> "undefined"]

NaN == [t |-> "nan"]

Num(n) == [t |-> "number", v |-> n]

Str(hash, chars) == [t |-> "string", hash |-> hash, chars |-> chars]

\* +x.toFixed(2): x rounded to two decimals
ToFixed2(x) == IF x >= 0 THEN 10 * ((x + 5) \div 10) ELSE -10 * ((5 - x) \div 10)

\* Color.getHex(): the 24-bit value of a colour, each channel rounded to a byte
GetHex(c) ==
    LET Byte(v) == (Clamp(v, 0, 1000) * 255 + 500) \div 1000
    IN Byte(c.r) * 65536 + Byte(c.g) * 256 + Byte(c.b)

\* Color.getHexString(): six hexadecimal digits
GetHexString(c) ==
    LET hex == GetHex(c)
    IN [i \in 1..6 |-> (hex \div (16 ^ (6 - i))) % 16]

\* parseInt(str, 16): the leading hexadecimal digits, NaN when there is none
RECURSIVE ParseInt16(_, _, _)
ParseInt16(chars, i, acc) ==
    IF i > Len(chars) \/ chars[i] > 15
    THEN (IF i = 1 THEN NaN ELSE Num(acc))
    ELSE ParseInt16(chars, i + 1, acc * 16 + chars[i])

\* getJsonData: one record per particle
GetJsonData(vs) ==
    [i \in 1..Len(vs) |->
        [id |-> Num(i - 1),
         x |-> Num(ToFixed2(vs[i].x)),
         y |-> Num(ToFixed2(vs[i].y)),
         z |-> Num(ToFixed2(vs[i].z)),
         c |-> Str(TRUE, GetHexString(vs[i].color)),
         color |-> Undefined]]

\* the truthiness of a JSON value
Truthy(val) ==
    CASE val.t = "number" -> val.v # 0
      [] val.t = "string" -> val.hash \/ val.chars # <<>>
      [] OTHER -> FALSE

\* Number(val) || 0, for a value that is not a string
NumberOrZero(val) == IF val.t = "number" THEN val.v ELSE 0

FallbackColor == 13421772

\* the colour handleJsonImport reads from a record
ImportedColor(v) ==
    LET colorVal == IF Truthy(v.c) THEN v.c ELSE v.color
        colorInt == IF colorVal.t = "string" THEN ParseInt16(colorVal.chars, 1, 0)
                    ELSE IF colorVal.t \in {"number", "nan"} THEN colorVal
                    ELSE Num(FallbackColor)
    IN IF colorInt.t = "nan" THEN FallbackColor ELSE colorInt.v

\* rawData.map(...) of handleJsonImport
ImportedVoxels(rawData) ==
    [i \in 1..Len(rawData) |->
        Voxel(NumberOrZero(rawData[i].x), NumberOrZero(rawData[i].y),
              NumberOrZero(rawData[i].z), ImportedColor(rawData[i]))]

\* App.handleJsonImport over a parsed array: everything inside its try
HandleJsonImport(rawData, jitter) == LoadInitialModel(ImportedVoxels(rawData), jitter)

\* what the store holds for a coordinate that is no number (NaN, undefined)
NotANumber == 99999999

\* a coordinate as generateWithAI passes it on: the value itself
Passed(val) == IF val.t = "number" THEN val.v ELSE NotANumber

\* rawData.map(...) of generateWithAI
AiVoxels(rawData) ==
    [i \in 1..Len(rawData) |->
        LET colorInt == ParseInt16(rawData[i].color.chars, 1, 0)
        IN Voxel(Passed(rawData[i].x), Passed(rawData[i].y), Passed(rawData[i].z),
                 IF colorInt.t = "nan" THEN FallbackColor ELSE colorInt.v)]

\* App.generateWithAI from JSON.parse(response.text) on; an exception ends in
\* its catch, which alerts
GenerateWithAI(rawData, mode, jitter) ==
    \* colorStr.startsWith('#') throws for a colour that is not a string
    IF \E i \in 1..Len(rawData) : rawData[i].color.t # "string"
    THEN /\ calls < MaxCalls
         /\ calls' = calls + 1
         /\ call' = Called("generateWithAI", FALSE, Len(rawData), <<>>)
         /\ UNCHANGED <<engineVars, now, pticks, gestureVars>>
    ELSE IF mode = "create" THEN LoadInitialModel(AiVoxels(rawData), jitter)
    ELSE Rebuild(AiVoxels(rawData))

\* records of imported files and AI responses: the colour under c or under
\* color, fields missing or NaN; the colours are light grey as '#f0f0f0',
\* wood without the '#', a string that is no number, a number, NaN, none
JsonRecords ==
    LET colors == {Str(TRUE, <<15, 0, 15, 0, 15, 0>>), Str(FALSE, <<3, 11, 2, 15, 2, 15>>),
                   Str(TRUE, <<16, 16>>), Num(WOOD), NaN, Undefined}
        coordinates == {Num(1234), Num(-1236), NaN, Undefined}
    IN {[id |-> Undefined, x |-> x, y |-> Num(0), z |-> x, c |-> Undefined,
         color |-> Str(TRUE, <<15, 0, 15, 0, 15, 0>>)] : x \in coordinates}
       \cup {[id |-> Undefined, x |-> Num(1234), y |-> Num(0), z |-> Num(0),
               c |-> Undefined, color |-> col] : col \in colors}
       \cup {[id |-> Undefined, x |-> Num(1234), y |-> Num(0), z |-> Num(0), c |-> col,
               color |-> Str(TRUE, <<0, 0, 0, 0, 0, 0>>)] : col \in colors}

\* parsed arrays: empty or of one record
JsonLists == {<<>>} \cup {<<v>> : v \in JsonRecords}

WellFormed(rawData) ==
    \A i \in 1..Len(rawData) :
        /\ rawData[i].x.t = "number" /\ rawData[i].y.t = "number"
        /\ rawData[i].z.t = "number"
        /\ rawData[i].color.t = "string"

\* lightness offsets of createVoxels at the two ends of their range
JsonJitters == {-30, 29}

\* stores to export: positions with a third decimal
JsonModels ==
    SeqsUpTo({Voxel(1234, -1236, 0, 15790320), Voxel(-5, 1996, 1234, WOOD)}, MaxRecords)

\* the store holds what toFixed can be called on
Exportable(vs) ==
    \A i \in 1..Len(vs) : NotANumber \notin {vs[i].x, vs[i].y, vs[i].z}

InitJson ==
    /\ \E data \in JsonModels : \E jitter \in [1..Len(data) -> JitterValues] :
          /\ voxels = CreateVoxels(data, jitter)
          /\ uiCount = Len(data)
          /\ call = Called("load", TRUE, Len(data), <<CountNote(Len(data)), StateNote(STABLE)>>)
    /\ rebuildTargets = <<>>
    /\ rebuildStartTime = 0
    /\ dismantleStartTime = 0
    /\ state = STABLE
    /\ handAttractor = NoHand
    /\ lastHandUpdate = 0
    /\ uiState = STABLE
    /\ calls = 0
    /\ pticks = 0
    /\ GestureIdle
    /\ now = 0

\* the JSON text shown by handleShowJson, pasted back into the import
JsonRoundTrip ==
    /\ Exportable(voxels)
    /\ \E jitter \in [1..Len(voxels) -> JsonJitters] :
          HandleJsonImport(GetJsonData(voxels), jitter)

JsonImport ==
    \E rawData \in JsonLists : \E jitter \in [1..Len(rawData) -> JitterValues] :
        HandleJsonImport(rawData, jitter)

AiCreate ==
    \E rawData \in JsonLists : \E jitter \in [1..Len(rawData) -> JitterValues] :
        GenerateWithAI(rawData, "create", jitter)

AiMorph ==
    \E rawData \in {l \in JsonLists : WellFormed(l)} :
        GenerateWithAI(rawData, "morph", <<>>)

NextJson ==
    \/ JsonRoundTrip
    \/ JsonImport
    \/ AiCreate
    \/ AiMorph

SpecJson == InitJson /\ [][NextJson]_vars

-----------------------------------------------------------------------------
(* The stagger of dismantle(): stores of particles at several heights, less
   and more than the noise of the score apart *)

MaxCollapse == 3

\* particles on the floor, two units and five units above it
CollapseModels ==
    SeqsUpTo({Voxel(0, FLOOR_Y + h, 0, WOOD) : h \in {0, 200, 500}}, MaxCollapse)

InitCollapse ==
    /\ EngineLoaded(CollapseModels)
    /\ GestureIdle
    /\ now = 0

NextCollapse == DismantleCall

SpecCollapse == InitCollapse /\ [][NextCollapse]_vars

-----------------------------------------------------------------------------
(* The gesture controller: hands.onResults, one call per camera frame.
   onGesture and onHandMove are props of the component; the calls a frame
   makes to them are recorded in frame.  Palm coordinates are hundredths of
   the normalized image. *)

MaxRun == 22
MaxHistory == 1
MaxClock == 4000

\* twoHandsFrameCount.current > 10
HoldFrames == 10

Refs ==
    [lastGesture |-> lastGesture, gestureStartTime |-> gestureStartTime,
     lastPalmPos |-> lastPalmPos, velocityHistory |-> velocityHistory,
     cooldown |-> cooldown, twoHandsFrameCount |-> twoHandsFrameCount]

\* what one onResults call leaves: the refs, the onGesture calls in order, the
\* onHandMove call
Handled(r, intents, move) == [refs |-> r, intents |-> intents, move |-> move]

\* an onGesture call and the value the assignment to cooldown.current that
\* follows it stores
Intent(action, direction, until) ==
    [action |-> action, direction |-> direction, cooldown |-> until]

NoDirection == [none |-> TRUE]

\* velocityHistory.push(...) and the shift that keeps ten entries
Pushed(history, v) ==
    LET h == Append(history, v)
    IN IF Len(h) > 10 THEN Tail(h) ELSE h

Sign(x) == IF x > 0 THEN 1 ELSE IF x < 0 THEN -1 ELSE 0

ReversalsX(h) ==
    Cardinality({i \in 2..Len(h) :
        Abs(h[i].x) > 5 /\ Abs(h[i - 1].x) > 5 /\ Sign(h[i].x) # Sign(h[i - 1].x)})

ReversalsY(h) ==
    Cardinality({i \in 2..Len(h) :
        Abs(h[i].y) > 5 /\ Abs(h[i - 1].y) > 5 /\ Sign(h[i].y) # Sign(h[i - 1].y)})

RECURSIVE TotalMotion(_, _)
TotalMotion(h, i) ==
    IF i < 2 THEN 0 ELSE Abs(h[i].x) + Abs(h[i].y) + TotalMotion(h, i - 1)

IsShake(h) == (ReversalsX(h) >= 2 \/ ReversalsY(h) >= 2) /\ TotalMotion(h, Len(h)) > 45

\* const SWIPE_THRESHOLD = 0.2
SWIPE_THRESHOLD == 20

\* isFastSwing = speed > 0.3
SwingSpeed == 30

\* isPunching = dz < -0.04
PunchDepth == 4

\* the direction of a swipe of velocity (dx, dy), NoDirection when below the
\* threshold
SwipeDirection(dx, dy) ==
    IF Abs(dx) > Abs(dy)
    THEN IF Abs(dx) > SWIPE_THRESHOLD
         THEN (IF dx > 0 THEN Vec(-100, 0, 0) ELSE Vec(100, 0, 0))
         ELSE NoDirection
    ELSE IF Abs(dy) > SWIPE_THRESHOLD
         THEN (IF dy > 0 THEN Vec(0, -100, 0) ELSE Vec(0, 100, 0))
         ELSE NoDirection

\* a swipe logic that does not look at the fist
SwipedWithFist(fist, dx, dy) == SwipeDirection(dx, dy)

\* the swipe logic, entered only with an open hand
Swiped(fist, dx, dy) == IF fist THEN NoDirection ELSE SwipeDirection(dx, dy)

\* the end of the single-hand branch: gestureStartTime, lastGesture, lastPalmPos
Remembered(r, palm, fist, t) ==
    [r EXCEPT !.gestureStartTime = IF fist # (r.lastGesture = "Fist") THEN t ELSE @,
              !.lastGesture = IF fist THEN "Fist" ELSE "Open",
              !.lastPalmPos = palm]

\* the single-hand branch from the smash logic on, with a remembered palm
Moved(r, palm, fist, t, move) ==
    LET dx == palm.x - r.lastPalmPos.x
        dy == palm.y - r.lastPalmPos.y
        dz == palm.z - r.lastPalmPos.z
        history == Pushed(r.velocityHistory, [x |-> dx, y |-> dy])
        isPunching == dz < -PunchDepth
        isFastSwing == dx * dx + dy * dy > SwingSpeed * SwingSpeed
        shaken == IsShake(history)
        direction == Swiped(fist, dx, dy)
        swiped == direction # NoDirection
    IN IF fist /\ (isPunching \/ isFastSwing)
       THEN Handled([r EXCEPT !.cooldown = t + 800, !.velocityHistory = <<>>],
                    <<Intent("punch", NoDirection, t + 800)>>, move)
       ELSE Handled(
                Remembered(
                    [r EXCEPT !.velocityHistory = IF shaken THEN <<>> ELSE history,
                              !.cooldown = IF swiped THEN t + 800
                                           ELSE IF shaken THEN t + 1000 ELSE @],
                    palm, fist, t),
                (IF shaken THEN <<Intent("punch", NoDirection, t + 1000)>> ELSE <<>>)
                    \o (IF swiped THEN <<Intent("swipe", direction, t + 800)>> ELSE <<>>),
                move)

\* the single-hand branch: hand tracking, the cooldown gate, the gestures
SingleHandFrame(r, palm, fist, t) ==
    LET move == [x |-> 2 * palm.x - 100, y |-> -(2 * palm.y - 100), isFist |-> fist]
    IN IF t < r.cooldown THEN Handled(r, <<>>, move)
       ELSE IF r.lastPalmPos = NoPalm
            THEN Handled(Remembered(r, palm, fist, t), <<>>, move)
            ELSE Moved(r, palm, fist, t, move)

\* a two-hand branch without its return: the single-hand branch follows
TwoHandFrameFallingThrough(r, palm, fist, t) ==
    LET count == r.twoHandsFrameCount + 1
        fires == count > HoldFrames /\ t > r.cooldown
        two == IF fires THEN [r EXCEPT !.cooldown = t + 2000, !.twoHandsFrameCount = 0]
               ELSE [r EXCEPT !.twoHandsFrameCount = count]
        one == SingleHandFrame(two, palm, fist, t)
    IN Handled(one.refs,
               (IF fires THEN <<Intent("reset", NoDirection, t + 2000)>> ELSE <<>>) \o one.intents,
               one.move)

\* a two-hand branch that does not reset the counter after the trigger
TwoHandFrameKeepingCount(r, palm, fist, t) ==
    LET count == r.twoHandsFrameCount + 1
    IN IF count > HoldFrames /\ t > r.cooldown
       THEN Handled([r EXCEPT !.cooldown = t + 2000, !.twoHandsFrameCount = count],
                    <<Intent("reset", NoDirection, t + 2000)>>, NoMove)
       ELSE Handled([r EXCEPT !.twoHandsFrameCount = count], <<>>, NoMove)

\* the two-hand branch up to its return
TwoHandFrame(r, palm, fist, t) ==
    LET count == r.twoHandsFrameCount + 1
    IN IF count > HoldFrames /\ t > r.cooldown
       THEN Handled([r EXCEPT !.cooldown = t + 2000, !.twoHandsFrameCount = 0],
                    <<Intent("reset", NoDirection, t + 2000)>>, NoMove)
       ELSE Handled([r EXCEPT !.twoHandsFrameCount = count], <<>>, NoMove)

\* hands.onResults for a frame of n hands; palm and fist are landmarks[0] and
\* isFist(landmarks) of the first hand
Results(r, n, palm, fist, t) ==
    IF n = 0 THEN Handled([r EXCEPT !.velocityHistory = <<>>], <<>>, NoMove)
    ELSE IF n = 2 THEN TwoHandFrame(r, palm, fist, t)
    ELSE SingleHandFrame([r EXCEPT !.twoHandsFrameCount = 0], palm, fist, t)

Fires(intents) == Cardinality({k \in 1..Len(intents) : intents[k].action = "reset"})

\* the per-class cooldown ends after the onGesture calls of one frame
RECURSIVE Started(_, _, _)
Started(w, intents, k) ==
    IF k > Len(intents) THEN w
    ELSE Started([w EXCEPT ![intents[k].action] = intents[k].cooldown], intents, k + 1)

OnResults(n, palm, fist) ==
    LET out == Results(Refs, n, palm, fist, now)
    IN /\ lastGesture' = out.refs.lastGesture
       /\ gestureStartTime' = out.refs.gestureStartTime
       /\ lastPalmPos' = out.refs.lastPalmPos
       /\ velocityHistory' = out.refs.velocityHistory
       /\ cooldown' = out.refs.cooldown
       /\ twoHandsFrameCount' = out.refs.twoHandsFrameCount
       /\ frame' = [hands |-> n, palm |-> palm, fist |-> fist,
                    intents |-> out.intents, move |-> out.move]
       /\ holdRun' = IF n = 2 THEN holdRun + 1 ELSE 0
       /\ holdFires' = IF n = 2 THEN holdFires + Fires(out.intents) ELSE 0
       /\ classCooldown' = Started(classCooldown, out.intents, 1)
       /\ UNCHANGED <<engineVars, now, call, calls, pticks>>

\* wrist positions of the frames of a hold
HoldPalms == {Vec(50, 50, 0), Vec(50, 50, -5)}

FrameNone == OnResults(0, NoPalm, FALSE)

FrameOne ==
    /\ Len(velocityHistory) < MaxHistory
    /\ \E palm \in HoldPalms : \E fist \in BOOLEAN : OnResults(1, palm, fist)

\* the first hand of a two-hand frame: a fist, close to the camera
FrameTwo ==
    /\ holdRun < MaxRun
    /\ twoHandsFrameCount < MaxRun
    /\ OnResults(2, Vec(50, 50, -5), TRUE)

\* time between two frames, in ms
FrameSteps == {1000}

Elapse ==
    /\ now < MaxClock
    /\ \E dt \in FrameSteps : now' = now + dt
    /\ UNCHANGED <<engineVars, call, calls, pticks, gestureVars>>

InitHold ==
    /\ EngineLoaded({<<>>})
    /\ GestureIdle
    /\ now \in FrameSteps

NextHold ==
    \/ FrameNone
    \/ FrameOne
    \/ FrameTwo
    \/ Elapse

SpecHold == InitHold /\ [][NextHold]_vars

-----------------------------------------------------------------------------
(* The gesture controller over the frames of a hand that moves: punches,
   swings, shakes and swipes, with two-hand and empty frames in between. *)

MaxSwipeHistory == 3
MaxGestureHold == 11
MaxGestureClock == 1200

\* wrist positions: apart by 0.25 in x, by 0.40 in y, by 0.05 in depth
GesturePalms == {Vec(30, 50, 0), Vec(55, 50, 0), Vec(55, 50, -5), Vec(55, 90, 0)}

HandFrame ==
    /\ Len(velocityHistory) < MaxSwipeHistory
    /\ \E palm \in GesturePalms : \E fist \in BOOLEAN : OnResults(1, palm, fist)

BothHandsFrame ==
    /\ holdRun < MaxGestureHold
    /\ twoHandsFrameCount < MaxGestureHold
    /\ OnResults(2, Vec(55, 50, 0), FALSE)

\* time between two frames, in ms
GestureSteps == {400}

Wait ==
    /\ now < MaxGestureClock
    /\ \E dt \in GestureSteps : now' = now + dt
    /\ UNCHANGED <<engineVars, call, calls, pticks, gestureVars>>

InitGesture ==
    /\ EngineLoaded({<<>>})
    /\ GestureIdle
    /\ now \in GestureSteps

NextGesture ==
    \/ FrameNone
    \/ HandFrame
    \/ BothHandsFrame
    \/ Wait

SpecGesture == InitGesture /\ [][NextGesture]_vars

-----------------------------------------------------------------------------
(* Properties of the engine *)

\* the step is a call of dismantle(), rebuild(), applyForce()
DismantleStep == calls' = calls + 1 /\ call'.op = "dismantle"

RebuildStep == calls' = calls + 1 /\ call'.op = "rebuild"

ForceStep == calls' = calls + 1 /\ call'.op = "applyForce"

Motion(v) == <<v.x, v.y, v.z, v.vx, v.vy, v.vz, v.rvx, v.rvy, v.rvz>>

\* C1: dismantle() called in a state other than STABLE changes neither the
\* state, nor a particle (velocities, delays), nor the dismantle start time,
\* and notifies nobody; called in STABLE it moves the engine to DISMANTLING
\* and leaves every particle with a dismantleDelay >= 0.
DismantleOnlyFromStable ==
    [][DismantleStep =>
        IF state # STABLE
        THEN /\ state' = state
             /\ voxels' = voxels
             /\ dismantleStartTime' = dismantleStartTime
             /\ call'.emitted = <<>>
             /\ uiState' = uiState
        ELSE /\ state' = DISMANTLING
             /\ \A i \in 1..Len(voxels') : voxels'[i].dismantleDelay >= 0]_vars

\* a dismantle() that was ignored while particles were falling
DismantleIgnoredWhileFalling ==
    /\ call.op = "dismantle"
    /\ ~call.accepted
    /\ state = DISMANTLING
    /\ \E i \in 1..Len(voxels) : voxels[i].vy # 0

\* C2: rebuild() called while REBUILDING changes neither the state, nor the
\* rebuild targets, nor the rebuild start time, nor a particle, and notifies
\* nobody.
RebuildRejectedWhileRebuilding ==
    [][RebuildStep /\ state = REBUILDING =>
        /\ state' = state
        /\ rebuildTargets' = rebuildTargets
        /\ rebuildStartTime' = rebuildStartTime
        /\ voxels' = voxels
        /\ call'.emitted = <<>>
        /\ uiState' = uiState]_vars

\* a rebuild() that was rejected while a particle had a target to fly to
RebuildRejectedInFlight ==
    /\ call.op = "rebuild"
    /\ ~call.accepted
    /\ state = REBUILDING
    /\ \E i \in 1..Len(voxels) : ~rebuildTargets[i].isRubble

\* C3: when a tick moves the engine from REBUILDING to STABLE, every non-rubble
\* particle has snapped: its flight delay has elapsed, it is exactly at its
\* target and its rotation is zero.
StableOnlyWhenAllSnapped ==
    [][state = REBUILDING /\ state' = STABLE /\ call'.op = "tick" =>
        \A i \in 1..Len(voxels) :
            ~rebuildTargets[i].isRubble =>
                /\ now - rebuildStartTime >= rebuildTargets[i].delay
                /\ voxels'[i].x = rebuildTargets[i].x
                /\ voxels'[i].y = rebuildTargets[i].y
                /\ voxels'[i].z = rebuildTargets[i].z
                /\ voxels'[i].rx = 0 /\ voxels'[i].ry = 0 /\ voxels'[i].rz = 0]_vars

\* a tick has just completed a rebuild in which a particle had to wait for its
\* flight delay
RebuildCompletedAfterDelay ==
    /\ call.op = "tick"
    /\ call.emitted = <<StateNote(STABLE)>>
    /\ state = STABLE
    /\ \E i \in 1..Len(voxels) :
          ~rebuildTargets[i].isRubble /\ rebuildTargets[i].delay > 0

\* C4: with ticks occurring and the clock advancing, an engine that is
\* REBUILDING reaches STABLE.
RebuildReachesStable == (state = REBUILDING) ~> (state = STABLE)

\* a tick has just completed a rebuild that took several ticks of flight
RebuildCompletedAfterFlight ==
    /\ call.op = "tick"
    /\ call.emitted = <<StateNote(STABLE)>>
    /\ state = STABLE
    /\ pticks >= 3

\* particles that got a target
MatchedCount == Cardinality({i \in 1..Len(voxels) : ~rebuildTargets[i].isRubble})

\* C5: an accepted rebuild() gives a target to min(|targets|, |particles|)
\* particles and sets a taken flag once per matched particle, so no particle
\* is assigned to two targets.
MatcherAssignsMinimum ==
    call.op = "rebuild" /\ call.accepted =>
        /\ Len(rebuildTargets) = Len(voxels)
        /\ MatchedCount = Min(call.size, Len(voxels))
        /\ call.marks = MatchedCount

\* a rebuild() with more targets than particles matched every particle of a
\* store of two
MoreTargetsThanParticles ==
    /\ call.op = "rebuild"
    /\ call.accepted
    /\ Len(voxels) >= 2
    /\ call.size > Len(voxels)
    /\ MatchedCount = Len(voxels)

\* C6: applyForce() called while the engine is not DISMANTLING (STABLE or
\* REBUILDING) changes no particle's position, velocity or angular velocity.
ForceOnlyWhileDismantling ==
    [][ForceStep /\ state # DISMANTLING =>
        \A i \in 1..Len(voxels) : Motion(voxels'[i]) = Motion(voxels[i])]_vars

\* half a voxel above the floor, in hundredths
FloorLevel == FLOOR_Y + 50

\* C7 as stated: while DISMANTLING every particle of the store, its delay
\* elapsed or not, is at or above the floor level (epsilon: one hundredth).
AlwaysAboveFloorWhileDismantling ==
    state = DISMANTLING => \A i \in 1..Len(voxels) : voxels[i].y >= FloorLevel - 1

\* C7: a tick in DISMANTLING leaves every particle whose dismantleDelay has
\* elapsed at or above the floor level.
IntegratedParticlesAboveFloor ==
    [][state = DISMANTLING /\ UpdatePhysics =>
        \A i \in 1..Len(voxels) :
            now - dismantleStartTime >= voxels[i].dismantleDelay =>
                voxels'[i].y >= FloorLevel]_vars

\* a tick in DISMANTLING has just put a particle back on the floor level and
\* bounced it
ParticleClampedToFloor ==
    /\ call.op = "tick"
    /\ state = DISMANTLING
    /\ \E i \in 1..Len(voxels) : voxels[i].y = FloorLevel /\ voxels[i].vy > 0

\* the step is a call of loadInitialModel()
LoadStep == calls' = calls + 1 /\ call'.op = "load"

AtRest(v) ==
    /\ v.vx = 0 /\ v.vy = 0 /\ v.vz = 0
    /\ v.rx = 0 /\ v.ry = 0 /\ v.rz = 0
    /\ v.rvx = 0 /\ v.rvy = 0 /\ v.rvz = 0
    /\ v.dismantleDelay = 0

\* C16: loadInitialModel with a list of N voxels, duplicates allowed, called
\* in any state, leaves exactly N particles, particle i with id i and the
\* coordinates of voxel i, and the engine STABLE.
LoadMakesOneParticlePerVoxel ==
    [][\A data \in StoreModels : \A jitter \in [1..Len(data) -> JitterValues] :
          LoadInitialModel(data, jitter) =>
              /\ Len(voxels') = Len(data)
              /\ \A i \in 1..Len(data) :
                    /\ voxels'[i].id = i - 1
                    /\ voxels'[i].x = data[i].x
                    /\ voxels'[i].y = data[i].y
                    /\ voxels'[i].z = data[i].z
              /\ state' = STABLE]_vars

\* a model of two voxels at the same coordinates was loaded over a rebuild of
\* a store of one particle that had not run a tick yet
DuplicatesLoadedOverRebuild ==
    /\ call.op = "load"
    /\ calls = 2
    /\ pticks = 0
    /\ Len(rebuildTargets) = 1
    /\ Len(voxels) = 2
    /\ voxels[1].x = voxels[2].x /\ voxels[1].y = voxels[2].y
    /\ voxels[1].z = voxels[2].z
    /\ voxels[1].id = 0 /\ voxels[2].id = 1
    /\ state = STABLE

\* C17: only loadInitialModel changes the length of the particle store; an
\* accepted rebuild() keeps the store, gives it one rebuild target per
\* particle and matches min(|targets|, |particles|) of them, whatever the
\* length of its target list.
StoreLengthChangesOnlyOnLoad ==
    [][/\ Len(voxels') # Len(voxels) => LoadStep
       /\ RebuildStep /\ call'.accepted =>
             /\ Len(voxels') = Len(voxels)
             /\ Len(rebuildTargets') = Len(voxels)
             /\ MatchedCount' = Min(call'.size, Len(voxels))]_vars

\* a store of one particle is being rebuilt towards two targets: one target is
\* left unrealised
TargetLeftUnrealised ==
    /\ call.op = "rebuild"
    /\ call.accepted
    /\ call.size = 2
    /\ Len(voxels) = 1
    /\ MatchedCount = 1
    /\ state = REBUILDING

\* C18: a load in any state leaves the engine STABLE with every particle at
\* rest (zero velocity, rotation, angular velocity and dismantleDelay); a tick
\* in STABLE moves nothing; the engine leaves STABLE, and enters REBUILDING or
\* DISMANTLING, only by an accepted rebuild() or dismantle(), which takes its
\* start time from the clock and computes one target per particle of the
\* present store (rebuild) or a new delay for each of them (dismantle).
LoadDiscardsPhase ==
    /\ [](state = REBUILDING => Len(rebuildTargets) = Len(voxels))
    /\ [][/\ LoadStep =>
              /\ state' = STABLE
              /\ \A i \in 1..Len(voxels') : AtRest(voxels'[i])
          /\ UpdatePhysics /\ state = STABLE =>
              /\ voxels' = voxels
              /\ state' = STABLE
          /\ state' # state /\ state' = REBUILDING =>
              /\ RebuildStep
              /\ rebuildStartTime' = now
              /\ Len(rebuildTargets') = Len(voxels')
          /\ state' # state /\ state' = DISMANTLING =>
              /\ DismantleStep
              /\ dismantleStartTime' = now
              /\ \E draw \in StoreDraws :
                    voxels' = Dismantled(voxels, "explode", Vec(0, 0, 0), draw)]_vars

\* a model was loaded over particles that were falling: the dismantle started
\* after the clock had advanced and a tick had run
LoadedOverFallingParticles ==
    /\ call.op = "load"
    /\ calls = 2
    /\ dismantleStartTime > 0
    /\ pticks >= 1
    /\ Len(voxels) >= 1
    /\ state = STABLE

\* C19: the state the onStateChange observer received last is the engine's
\* state, and a step that changes the state notifies the observer of the new
\* state.
ObserverSeesCurrentState ==
    /\ [](uiState = state)
    /\ [][state' # state =>
            \E k \in 1..Len(call'.emitted) :
                call'.emitted[k].kind = "state" /\ call'.emitted[k].v = state']_vars

\* the observer was told of a dismantle of a store of two particles
ObserverToldOfDismantle ==
    /\ call.op = "dismantle"
    /\ call.emitted = <<StateNote(DISMANTLING)>>
    /\ uiState = DISMANTLING
    /\ Len(voxels) = 2

HasCountNote(emitted) == \E k \in 1..Len(emitted) : emitted[k].kind = "count"

HasStateNote(emitted) == \E k \in 1..Len(emitted) : emitted[k].kind = "state"

\* C20 as stated: a call that notifies a state transition also emits the
\* particle count to onCountChange.
CountEmittedOnEveryTransition ==
    HasStateNote(call.emitted) =>
        \E k \in 1..Len(call.emitted) :
            call.emitted[k].kind = "count" /\ call.emitted[k].v = Len(voxels)

\* C20: the particle count is emitted to onCountChange by every load and by
\* nothing else, and the count the observer received last is the length of
\* the particle store.
CountEmittedOnLoadOnly ==
    /\ uiCount = Len(voxels)
    /\ HasCountNote(call.emitted) <=> call.op = "load"
    /\ call.op = "load" => call.emitted[1] = CountNote(Len(voxels))

\* a rebuild of a store of two particles completed without a count being
\* emitted, the observer holding the count of the last load
CountKeptAcrossRebuild ==
    /\ call.op = "tick"
    /\ call.emitted = <<StateNote(STABLE)>>
    /\ uiCount = 2
    /\ Len(voxels) = 2

\* the step delivers a 'swipe' to App.handleGesture
SwipeDelivered ==
    \E direction \in Directions : \E draw \in Draws :
        HandleGesture("swipe", direction, draw, <<>>)

-----------------------------------------------------------------------------
(* Properties of the gesture controller *)

\* C8 as stated: an unbroken run of more than 10 two-hand frames has fired
\* exactly one 'reset'.
ExactlyOneResetPerHold == holdRun > HoldFrames => holdFires = 1

\* C8: a two-hand frame fires 'reset' exactly when the incremented hold
\* counter exceeds 10 and the cooldown has expired; a firing frame sets the
\* counter to 0 and the cooldown to now + 2000, any other two-hand frame only
\* counts; k intents of one unbroken run take at least 11 (k - 1) + 1 frames.
ResetFiresByCounterAndCooldown ==
    /\ [](holdFires >= 1 => holdRun >= (HoldFrames + 1) * (holdFires - 1) + 1)
    /\ [][FrameTwo =>
            LET fires == twoHandsFrameCount + 1 > HoldFrames /\ now > cooldown
            IN /\ Fires(frame'.intents) = (IF fires THEN 1 ELSE 0)
               /\ fires => twoHandsFrameCount' = 0 /\ cooldown' = now + 2000
               /\ ~fires => /\ twoHandsFrameCount' = twoHandsFrameCount + 1
                            /\ cooldown' = cooldown]_vars

\* a second 'reset' has just fired in one unbroken two-hand run
SecondResetInOneHold ==
    /\ frame.hands = 2
    /\ Fires(frame.intents) = 1
    /\ holdFires = 2

\* C9: after a frame with fewer than two hands the hold counter is 0, and a
\* 'reset' fires only at the end of more than 10 consecutive two-hand frames.
HoldCounterResetsBelowTwoHands ==
    /\ frame.hands < 2 => twoHandsFrameCount = 0
    /\ Fires(frame.intents) > 0 => holdRun > HoldFrames

\* C10: a two-hand frame fires no 'punch' and no 'swipe', calls no onHandMove,
\* and changes neither the remembered palm nor the velocity history.
TwoHandsPreemptSingleHand ==
    [][FrameTwo =>
        /\ lastPalmPos' = lastPalmPos
        /\ velocityHistory' = velocityHistory
        /\ lastGesture' = lastGesture
        /\ frame'.move = NoMove
        /\ \A k \in 1..Len(frame'.intents) :
              frame'.intents[k].action \notin {"punch", "swipe"}]_vars

\* a two-hand frame whose first hand, alone, would have been a punch: a fist
\* that came closer to the camera, no cooldown running
TwoHandFrameOverPunch ==
    /\ frame.hands = 2
    /\ frame.fist
    /\ lastPalmPos # NoPalm
    /\ frame.palm.z - lastPalmPos.z < -4
    /\ velocityHistory # <<>>
    /\ now >= cooldown
    /\ frame.move = NoMove

\* the step handles a frame of the moving hand, of two hands or of none
GestureFrame == FrameNone \/ HandFrame \/ BothHandsFrame

Fired(intents, action) == \E k \in 1..Len(intents) : intents[k].action = action

\* C11: no intent class fires while the cooldown that its own last firing
\* started (800 ms after a punch, a swing or a swipe, 1000 ms after a shake,
\* 2000 ms after a reset) is still running.
OncePerCooldownWindow ==
    [][GestureFrame =>
        \A k \in 1..Len(frame'.intents) :
            now >= classCooldown[frame'.intents[k].action]]_vars

\* C12: a class whose own conditions are met and whose own cooldown is not
\* running fires, whatever cooldown another class has started: a fist that
\* punches or swings fires 'punch', an open hand above the swipe threshold
\* fires 'swipe', the eleventh two-hand frame fires 'reset'.
CooldownsArePerIntent ==
    [][GestureFrame =>
        /\ (frame'.hands = 1 /\ lastPalmPos # NoPalm) =>
              LET dx == frame'.palm.x - lastPalmPos.x
                  dy == frame'.palm.y - lastPalmPos.y
                  dz == frame'.palm.z - lastPalmPos.z
              IN /\ (/\ frame'.fist
                      /\ (dz < -PunchDepth \/ dx * dx + dy * dy > SwingSpeed * SwingSpeed)
                      /\ now >= classCooldown["punch"])
                        => Fired(frame'.intents, "punch")
                 /\ (/\ ~frame'.fist
                      /\ SwipeDirection(dx, dy) # NoDirection
                      /\ now >= classCooldown["swipe"])
                        => Fired(frame'.intents, "swipe")
        /\ (/\ frame'.hands = 2
             /\ twoHandsFrameCount + 1 > HoldFrames
             /\ now > classCooldown["reset"])
               => Fired(frame'.intents, "reset")]_vars

\* C13: a single-hand frame that fires 'punch' fires no 'swipe'.
SmashPreemptsSwipe ==
    frame.hands = 1 /\ Fired(frame.intents, "punch") => ~Fired(frame.intents, "swipe")

-----------------------------------------------------------------------------
(* Properties of export and import *)

\* C21: exporting the store with getJsonData and importing the records yields
\* a store of the same count, the same positions rounded to two decimals and
\* the same colours, and exporting it again gives the same records
RoundTripIsIdempotent ==
    [][JsonRoundTrip =>
        /\ Len(voxels') = Len(voxels)
        /\ \A i \in 1..Len(voxels) :
              /\ voxels'[i].x = ToFixed2(voxels[i].x)
              /\ voxels'[i].y = ToFixed2(voxels[i].y)
              /\ voxels'[i].z = ToFixed2(voxels[i].z)
              /\ GetHex(voxels'[i].color) = GetHex(voxels[i].color)
        /\ GetJsonData(voxels') = GetJsonData(voxels)]_vars

\* the part of C21 that the code keeps: count and rounded positions
RoundTripKeepsPositions ==
    [][JsonRoundTrip =>
        /\ Len(voxels') = Len(voxels)
        /\ \A i \in 1..Len(voxels) :
              /\ voxels'[i].x = ToFixed2(voxels[i].x)
              /\ voxels'[i].y = ToFixed2(voxels[i].y)
              /\ voxels'[i].z = ToFixed2(voxels[i].z)]_vars

\* the store's particle i is record v with every missing or NaN coordinate
\* replaced by 0 and a missing or unreadable colour col by 0xCCCCCC
CoercedTo(particle, v, col, offset) ==
    /\ particle.x = (IF v.x.t = "number" THEN v.x.v ELSE 0)
    /\ particle.y = (IF v.y.t = "number" THEN v.y.v ELSE 0)
    /\ particle.z = (IF v.z.t = "number" THEN v.z.v ELSE 0)
    /\ (\/ col.t \in {"undefined", "nan"}
        \/ (col.t = "string" /\ (col.chars = <<>> \/ col.chars[1] > 15)))
          => particle.color = OffsetLightness(ColorOfHex(FallbackColor), offset)

\* every record of rawData is in the store, coerced, after an accepted load
LoadedCoerced(rawData, jitter, colours) ==
    /\ call'.op = "load"
    /\ call'.accepted
    /\ state' = STABLE
    /\ Len(voxels') = Len(rawData)
    /\ \A i \in 1..Len(rawData) :
          CoercedTo(voxels'[i], rawData[i], colours[i], jitter[i])

\* C22: for every voxel list that comes from a JSON import or from an AI
\* response, a record with a missing or NaN coordinate or colour is coerced
\* to the defaults (coordinate 0, colour 0xCCCCCC) and the load still
\* happens: no malformed record throws or aborts the load
MalformedRecordsAreCoerced ==
    [][\A rawData \in JsonLists : \A jitter \in [1..Len(rawData) -> JitterValues] :
        /\ HandleJsonImport(rawData, jitter) =>
              LoadedCoerced(rawData, jitter,
                  [i \in 1..Len(rawData) |->
                      IF Truthy(rawData[i].c) THEN rawData[i].c ELSE rawData[i].color])
        /\ GenerateWithAI(rawData, "create", jitter) =>
              LoadedCoerced(rawData, jitter,
                  [i \in 1..Len(rawData) |-> rawData[i].color])]_vars

\* the part of C22 that the code keeps: the JSON import coerces and loads
ImportCoercesMalformedRecords ==
    [][\A rawData \in JsonLists : \A jitter \in [1..Len(rawData) -> JitterValues] :
        HandleJsonImport(rawData, jitter) =>
            LoadedCoerced(rawData, jitter,
                [i \in 1..Len(rawData) |->
                    IF Truthy(rawData[i].c) THEN rawData[i].c ELSE rawData[i].color])]_vars

-----------------------------------------------------------------------------
(* Properties of the phases *)

\* a tick has just run updatePhysics
TickStep == call'.op = "tick" /\ calls' = calls /\ now' = now

\* C23: the engine's state changes only from STABLE to DISMANTLING, by an
\* accepted dismantle(); from STABLE or DISMANTLING to REBUILDING, by an
\* accepted rebuild(); from REBUILDING to STABLE, by the tick that completes
\* the rebuild; and from any state to STABLE, by a load.  DISMANTLING never
\* returns to STABLE without a rebuild or a load, REBUILDING never goes to
\* DISMANTLING, and STABLE can be reached again from every state: a load is
\* never refused and ends in STABLE.
OnlyFourTransitions ==
    /\ [][state' # state =>
            \/ LoadStep /\ state' = STABLE
            \/ DismantleStep /\ state = STABLE /\ state' = DISMANTLING
            \/ RebuildStep /\ state \in {STABLE, DISMANTLING} /\ state' = REBUILDING
            \/ TickStep /\ state = REBUILDING /\ state' = STABLE]_vars
    /\ [][LoadStep => state' = STABLE]_vars
    /\ [](calls < MaxCalls => ENABLED StoreLoad)

\* the engine went from STABLE through DISMANTLING and REBUILDING back to
\* STABLE: the second call was the rebuild of a store that a dismantle had
\* given delays, and a tick has just completed it
FullCycleCompleted ==
    /\ call.op = "tick"
    /\ call.emitted = <<StateNote(STABLE)>>
    /\ state = STABLE
    /\ calls = 2
    /\ Len(voxels) = 2
    /\ \E i \in 1..Len(voxels) : voxels[i].dismantleDelay > 0

\* position and rotation of a particle
Pose(v) == <<v.x, v.y, v.z, v.rx, v.ry, v.rz>>

\* C24: position and rotation of a particle change only in a tick, and only
\* when the engine is DISMANTLING and the time since the dismantle started
\* has reached the particle's dismantleDelay, or the engine is REBUILDING,
\* the particle is not rubble and the time since the rebuild started has
\* reached its flight delay; dismantle(), rebuild(), applyForce() and ticks
\* in STABLE move no particle.  (A load replaces the particles.)
ParticlesMoveOnlyInDueTicks ==
    [][~LoadStep =>
        /\ Len(voxels') = Len(voxels)
        /\ \A i \in 1..Len(voxels) :
              Pose(voxels'[i]) # Pose(voxels[i]) =>
                  /\ TickStep
                  /\ \/ /\ state = DISMANTLING
                        /\ now - dismantleStartTime >= voxels[i].dismantleDelay
                     \/ /\ state = REBUILDING
                        /\ ~rebuildTargets[i].isRubble
                        /\ now - rebuildStartTime >= rebuildTargets[i].delay]_vars

\* a tick of a collapse has moved the particle whose delay has passed and
\* left alone, where dismantle() found it, the one whose delay has not
OneFallingOneWaiting ==
    /\ call.op = "tick"
    /\ state = DISMANTLING
    /\ \E i, j \in 1..Len(voxels) :
          /\ now - dismantleStartTime >= voxels[i].dismantleDelay
          /\ Pose(voxels[i]) # <<0, FLOOR_Y, 0, 0, 0, 0>>
          /\ now - dismantleStartTime < voxels[j].dismantleDelay
          /\ Pose(voxels[j]) = <<0, FLOOR_Y, 0, 0, 0, 0>>
          /\ voxels[j].vy # 0

\* C25: a particle that rebuild() leaves unmatched is rubble: no step of the
\* REBUILDING phase and of the STABLE phase after it changes its position or
\* rotation (a load aside, which replaces the particles), and rubble never
\* delays the completion: a tick in REBUILDING ends in STABLE exactly when
\* every particle that is not rubble is due and has been put on its target,
\* so with no targets the first tick completes the phase.
RubbleStaysAndNeverBlocks ==
    /\ [][RebuildStep /\ call'.accepted =>
            /\ Cardinality({i \in 1..Len(voxels) : rebuildTargets'[i].isRubble})
                  = Len(voxels) - Min(call'.size, Len(voxels))
            /\ \A i \in 1..Len(voxels) :
                  rebuildTargets'[i].isRubble =>
                      /\ rebuildTargets'[i].x = voxels[i].x
                      /\ rebuildTargets'[i].y = voxels[i].y
                      /\ rebuildTargets'[i].z = voxels[i].z]_vars
    /\ [][~LoadStep /\ state \in {REBUILDING, STABLE} =>
            \A i \in 1..Len(voxels) :
                (state = STABLE \/ rebuildTargets[i].isRubble) =>
                    Pose(voxels'[i]) = Pose(voxels[i])]_vars
    /\ [][TickStep /\ state = REBUILDING =>
            (state' = STABLE <=>
                \A i \in 1..Len(voxels) :
                    \/ rebuildTargets[i].isRubble
                    \/ /\ now - rebuildStartTime >= rebuildTargets[i].delay
                       /\ voxels'[i].x = rebuildTargets[i].x
                       /\ voxels'[i].y = rebuildTargets[i].y
                       /\ voxels'[i].z = rebuildTargets[i].z)]_vars

\* a rebuild of two particles after a collapse has completed: a particle that
\* had started to fall is rubble and keeps the rotation of its fall
RubbleLeftRotated ==
    /\ call.op = "tick"
    /\ call.emitted = <<StateNote(STABLE)>>
    /\ state = STABLE
    /\ Len(voxels) = 2
    /\ \E i \in 1..Len(voxels) :
          /\ rebuildTargets[i].isRubble
          /\ voxels[i].rx # 0

-----------------------------------------------------------------------------
(* Properties of the matcher: in the stores and target lists of SpecMatch
   target k stands at x = k in the row of its colour, so that the state after
   a rebuild() shows which particle got which target *)

\* the particle that holds target k
Holder(k) ==
    CHOOSE i \in 1..Len(voxels) :
        ~rebuildTargets[i].isRubble /\ rebuildTargets[i].x = 100 * k

\* the colour of target k
TargetColor(k) == MatchPalette[rebuildTargets[Holder(k)].z \div 100]

\* the particles not yet taken when target k is processed
Untaken(k) ==
    {i \in 1..Len(voxels) : rebuildTargets[i].isRubble \/ rebuildTargets[i].x >= 100 * k}

\* g > 0.4, or r < 0.25 and b < 0.25
Organic(c) == c.g > 400 \/ (c.r < 250 /\ c.b < 250)

\* C26: a particle classified organic (g > 0.4, or r < 0.25 and b < 0.25) is
\* assigned to a target whose colour is neither GREEN nor WOOD only when no
\* particle that is not organic, and so carries no penalty, is still untaken
OrganicOnlyAsLastResort ==
    call.op = "rebuild" /\ call.accepted =>
        \A k \in 1..MatchedCount :
            Organic(voxels[Holder(k)].color) /\ TargetColor(k) \notin {GREEN, WOOD} =>
                \A j \in Untaken(k) : Organic(voxels[j].color)

\* distance + penalty of particle i for target k
Cost(i, k) ==
    GetColorDist(voxels[i].color, TargetColor(k))
        + (IF Organic(voxels[i].color) /\ TargetColor(k) \notin {GREEN, WOOD}
           THEN 1000000 ELSE 0)

\* the scan for target k ends at particle i: a near-perfect match, distance
\* below 0.01, that is better than every untaken particle before it
StopsAt(i, k) ==
    /\ i \in Untaken(k)
    /\ GetColorDist(voxels[i].color, TargetColor(k)) < 100
    /\ \A j \in Untaken(k) : j < i => Cost(j, k) > Cost(i, k)

\* the untaken particles that the scan for target k reaches
Scanned(k) ==
    {i \in Untaken(k) : \A j \in 1..Len(voxels) : StopsAt(j, k) => i <= j}

\* C27: the targets are processed in input order, and the particle chosen for
\* a target is the first of the not yet taken particles with the least colour
\* distance + penalty among those the scan reaches, the scan ending at a
\* near-perfect match (distance < 0.01); the assignment depends on nothing
\* but the particles' colours and the target list
GreedyFirstMinimum ==
    call.op = "rebuild" /\ call.accepted =>
        /\ MatchedCount = Min(call.size, Len(voxels))
        /\ \A k \in 1..MatchedCount :
              /\ Holder(k) \in Scanned(k)
              /\ \A j \in Scanned(k) :
                    \/ Cost(j, k) > Cost(Holder(k), k)
                    \/ Cost(j, k) = Cost(Holder(k), k) /\ j >= Holder(k)

\* the scan for a target ended at a near-perfect match, the first particle,
\* and never reached the second, whose distance + penalty is smaller
ScanEndedBeforeTheMinimum ==
    /\ call.op = "rebuild"
    /\ call.accepted
    /\ Len(voxels) = 2
    /\ MatchedCount = 1
    /\ Holder(1) = 1
    /\ StopsAt(1, 1)
    /\ Cost(2, 1) < Cost(1, 1)

-----------------------------------------------------------------------------
(* Properties of the displacement *)

\* C28: the displacement that the Smash and Swipe decisions of a single-hand
\* frame use is the movement of the palm since the immediately preceding
\* camera frame: the position it is measured from is the palm of that frame
\* (none if that frame showed no hand), also in the first frame after a
\* cooldown, after a Smash, after two-hand frames and after the hand was lost
DisplacementSincePrecedingFrame ==
    [][GestureFrame /\ frame'.hands = 1 /\ now >= cooldown =>
        lastPalmPos = frame.palm]_vars

-----------------------------------------------------------------------------
(* Properties of the stagger *)

\* C29: after an accepted dismantle() of N particles every dismantleDelay is
\* in [0, 1200) ms; the delays are those of the N distinct ranks 0..N-1,
\* (rank / N)^1.2 x 1200, strictly increasing in the rank, and a particle of
\* higher score has the smaller delay; whenever a.y exceeds b.y by 5 or more,
\* a's delay is smaller than b's
StaggerFollowsHeight ==
    [][\A type \in {"explode", "swipe"} : \A direction \in {Vec(100, 0, 0), Vec(0, 0, 0)} :
       \A draw \in Draws :
        Dismantle(type, direction, draw) /\ call'.accepted =>
            LET n == Len(voxels)
                delay == [i \in 1..n |-> voxels'[i].dismantleDelay]
            IN /\ Len(voxels') = n
               /\ \A i \in 1..n : 0 <= delay[i] /\ delay[i] < TotalDuration
               /\ \A r, q \in 0..(n - 1) :
                     r < q => DelayOfRank(r, n) < DelayOfRank(q, n)
               /\ Cardinality({delay[i] : i \in 1..n}) = n
               /\ {delay[i] : i \in 1..n} = {DelayOfRank(r, n) : r \in 0..(n - 1)}
               /\ \A a, b \in 1..n :
                     /\ voxels[a].y + draw[a] * 5 > voxels[b].y + draw[b] * 5
                            => delay[a] < delay[b]
                     /\ voxels[a].y - voxels[b].y >= 500 => delay[a] < delay[b]]_vars

\* three particles have been given their delays: the one five units up
\* collapses before the one on the floor, and the one on the floor, by its
\* noise, before the one two units up
NoiseOverturnsSmallGap ==
    /\ call.op = "dismantle"
    /\ call.accepted
    /\ Len(voxels) = 3
    /\ \E a, b, c \in 1..3 :
          /\ voxels[a].y = FLOOR_Y + 500
          /\ voxels[b].y = FLOOR_Y
          /\ voxels[c].y = FLOOR_Y + 200
          /\ voxels[a].dismantleDelay < voxels[b].dismantleDelay
          /\ voxels[b].dismantleDelay < voxels[c].dismantleDelay

-----------------------------------------------------------------------------
(* Properties of the rebuild targets *)

\* C30: whenever the engine is REBUILDING, rebuildTargets has exactly one
\* entry per particle, entry i for particle i: either a destination with a
\* delay >= 0 or the rubble marker, which holds the particle's own position;
\* a tick in REBUILDING never reads a missing target
OneTargetPerParticle ==
    state = REBUILDING =>
        /\ Len(rebuildTargets) = Len(voxels)
        /\ \A i \in 1..Len(voxels) :
              /\ rebuildTargets[i] # NoTarget
              /\ rebuildTargets[i].delay >= 0
              /\ rebuildTargets[i].isRubble =>
                    /\ rebuildTargets[i].delay = 0
                    /\ rebuildTargets[i].x = voxels[i].x
                    /\ rebuildTargets[i].y = voxels[i].y
                    /\ rebuildTargets[i].z = voxels[i].z
              /\ ~rebuildTargets[i].isRubble =>
                    \E t \in TargetPool :
                        /\ rebuildTargets[i].x = t.x
                        /\ rebuildTargets[i].y = t.y
                        /\ rebuildTargets[i].z = t.z

\* a tick of a rebuild of two particles has read a destination whose delay
\* is still running for the one and the rubble marker for the other
TickReadBothKinds ==
    /\ state = REBUILDING
    /\ call.op = "tick"
    /\ Len(voxels) = 2
    /\ \E i, j \in 1..2 :
          /\ ~rebuildTargets[i].isRubble
          /\ rebuildTargets[i].delay > now - rebuildStartTime
          /\ rebuildTargets[j].isRubble


====
